---- MODULE Spec2Model ----
(***************************************************************************)
(* NotebookSerializer (src/client/datascience/notebook/notebookSerliazer.ts)*)
(*                                                                         *)
(* deserializeNotebook turns the bytes of an .ipynb file into NotebookData *)
(* and serialize turns NotebookData (or a live NotebookDocument) back into *)
(* JSON text.                                                              *)
(*                                                                         *)
(* A text is modelled as the pair of what the two readers of the text see: *)
(* `lines`, the leading whitespace of each of its lines (what detectIndent *)
(* reads), and `json`, the value its tokens denote (what JSON.parse reads; *)
(* Malformed when the tokens are no JSON document).  JSON allows any       *)
(* whitespace between tokens, so every pairing of the two is a text.       *)
(* JavaScript values are tagged records [t |-> type, v |-> payload];       *)
(* strings are sequences of characters.                                    *)
(***************************************************************************)
EXTENDS Integers, Sequences, FiniteSets, TLC

VARIABLES
    decode,     \* the last deserializeNotebook call: its content, what it
                \* called on the way, and how it ended
    encode,     \* the last serialize call since then: its data, whether it was
                \* the live document, the indent it used and the text it returned
    uuidCalls,  \* number of uuid() calls made so far
    returnedIds \* the __vsc_id of every NotebookData returned so far, in order

vars == <<decode, encode, uuidCalls, returnedIds>>

----------------------------------------------------------------------------
(* JavaScript values *)

Undefined == [t |-> "undefined"]
Null == [t |-> "null"]
Bool(b) == [t |-> "bool", v |-> b]
Num(n) == [t |-> "num", v |-> n]
Str(s) == [t |-> "str", v |-> s]
Arr(a) == [t |-> "arr", v |-> a]
Obj(f) == [t |-> "obj", v |-> f]
Uuid(n) == [t |-> "uuid", v |-> n]
Malformed == [t |-> "malformed"]

\* ToBoolean: undefined, null, false, 0 and '' are falsy, everything else truthy
Truthy(x) ==
    CASE x.t = "undefined" -> FALSE
      [] x.t = "null" -> FALSE
      [] x.t = "bool" -> x.v
      [] x.t = "num" -> x.v # 0
      [] x.t = "str" -> x.v # <<>>
      [] OTHER -> TRUE

\* x?.key : undefined on undefined and null, and on a value without the property
Get(x, key) ==
    IF x.t = "obj" /\ key \in DOMAIN x.v THEN x.v[key] ELSE Undefined

\* x?.length
Length(x) ==
    CASE x.t = "arr" -> Num(Len(x.v))
      [] x.t = "str" -> Num(Len(x.v))
      [] OTHER -> Get(x, "length")

\* { ...x } : the own enumerable properties of x; none for undefined, null,
\* numbers and booleans
Spread(x) == IF x.t = "obj" THEN x.v ELSE <<>>

\* metadata.with(change): a copy of the metadata with the keys of change replaced
With(metadata, change) == change @@ metadata

Repeat(c, n) == [i \in 1..n |-> c]

----------------------------------------------------------------------------
(* Texts: leading whitespace of the lines, and the JSON value of the tokens *)

\* a line's leading whitespace as INDENT_REGEX /^(?:( )+|\t+)/ of detect-indent
\* matches it: <<type, size>>, type "s" (spaces) or "t" (tabs); size 0 when the
\* line starts with a token and the regex does not match
NoIndent == <<"s", 0>>

RECURSIVE LeadingRun(_, _)
LeadingRun(ws, i) ==
    IF i > Len(ws) \/ ws[i] # ws[1] THEN i - 1 ELSE LeadingRun(ws, i + 1)

LeadingWhitespace(ws) ==
    IF ws = <<>> THEN NoIndent
    ELSE <<IF ws[1] = " " THEN "s" ELSE "t", LeadingRun(ws, 1)>>

\* contents ? ... : ...  (the empty string is falsy)
IsEmptyText(text) == text.lines = <<>>

EmptyText == [lines |-> <<>>, json |-> Malformed]

----------------------------------------------------------------------------
(* detect-indent: the most used difference of indentation between lines *)

Abs(n) == IF n < 0 THEN -n ELSE n

\* the lines INDENT_REGEX matches
Indented(lines) == {i \in 1..Len(lines) : lines[i][2] > 0}

\* previousSize when line i is read: the indentation of the line before, 0 when
\* that line is not indented or is indented with the other character
PreviousSize(lines, i) ==
    IF i > 1 /\ lines[i - 1][2] > 0 /\ lines[i - 1][1] = lines[i][1]
    THEN lines[i - 1][2] ELSE 0

IndentDifference(lines, i) == lines[i][2] - PreviousSize(lines, i)

\* the key line i counts for: its type and the size of its indent or unindent,
\* or, when it is indented like the line before, the key last made
IndentsKey(lines, i) ==
    LET made == {j \in Indented(lines) : j <= i /\ IndentDifference(lines, j) # 0}
        j == CHOOSE j \in made : \A k \in made : k <= j
    IN  <<lines[j][1], Abs(IndentDifference(lines, j))>>

\* the entry of a key in the map of indents: how many lines count for it, how
\* many of them are indented like the line before (weight), and the line that
\* made the entry
IndentsEntry(lines, key) ==
    LET for == {i \in Indented(lines) : IndentsKey(lines, i) = key}
    IN  [key |-> key,
         used |-> Cardinality(for),
         weight |-> Cardinality({i \in for : IndentDifference(lines, i) = 0}),
         first |-> CHOOSE i \in for : \A k \in for : i <= k]

\* getMostUsed: the first entry of the map with the highest use count, then weight
GetMostUsed(indents) ==
    IF indents = {} THEN [key |-> NoIndent]
    ELSE CHOOSE e \in indents : \A o \in indents :
            \/ e.used > o.used
            \/ e.used = o.used /\ e.weight > o.weight
            \/ e.used = o.used /\ e.weight = o.weight /\ e.first <= o.first

\* detectIndent(contents).indent
detectIndent(lines) ==
    LET keys == {IndentsKey(lines, i) : i \in Indented(lines)}
        result == GetMostUsed({IndentsEntry(lines, key) : key \in keys})
    IN  Repeat(IF result.key[1] = "s" THEN " " ELSE "\t", result.key[2])

----------------------------------------------------------------------------
(* JSON.stringify(value, undefined, space) *)

\* a string space is cut to its first 10 characters
MaxGap == 10

Gap(space) == SubSeq(space, 1, IF Len(space) < MaxGap THEN Len(space) ELSE MaxGap)

RECURSIVE SetToSeq(_)
SetToSeq(S) ==
    IF S = {} THEN <<>>
    ELSE LET k == CHOOSE k \in S : TRUE IN <<k>> \o SetToSeq(S \ {k})

\* the values of an array's elements or of an object's properties that are
\* written out (a property whose value is undefined is left out)
Members(x) ==
    IF x.t = "arr" THEN x.v
    ELSE IF x.t = "obj"
    THEN LET keys == SetToSeq({k \in DOMAIN x.v : x.v[k].t # "undefined"})
         IN  [i \in 1..Len(keys) |-> x.v[keys[i]]]
    ELSE <<>>

\* the nesting depth of every line after the one the value starts on: '{' or '['
\* is followed by one line per member, one level deeper, and the closing bracket
\* on a line of its own; '{}', '[]' and primitives break no line
RECURSIVE Depths(_, _)
RECURSIVE MemberDepths(_, _, _)
Depths(x, d) ==
    IF Members(x) = <<>> THEN <<>> ELSE MemberDepths(Members(x), 1, d + 1) \o <<d>>
MemberDepths(ms, i, d) ==
    IF i > Len(ms) THEN <<>>
    ELSE <<d>> \o Depths(ms[i], d) \o MemberDepths(ms, i + 1, d)

RECURSIVE Concat(_, _)
Concat(s, n) == IF n = 0 THEN <<>> ELSE s \o Concat(s, n - 1)

\* what JSON.parse reads back from the text: properties with undefined values are gone
RECURSIVE Written(_)
Written(x) ==
    IF x.t = "arr" THEN Arr([i \in 1..Len(x.v) |-> Written(x.v[i])])
    ELSE IF x.t = "obj"
    THEN Obj([k \in {k \in DOMAIN x.v : x.v[k].t # "undefined"} |-> Written(x.v[k])])
    ELSE x

stringify(value, space) ==
    LET gap == Gap(space)
        depths == Depths(value, 0)
    IN  [lines |-> IF gap = <<>> THEN <<NoIndent>>
                   ELSE <<NoIndent>> \o
                        [i \in 1..Len(depths) |-> LeadingWhitespace(Concat(gap, depths[i]))],
         json |-> Written(value)]

----------------------------------------------------------------------------
(* Cells and their converters (helpers/helpers.ts, common.ts) *)

CodeType == Str(<<"code">>)
MarkdownType == Str(<<"markdown">>)

\* the cell literal of deserializeNotebook, "Ensure we always have a blank cell"
BlankCell ==
    Obj([cell_type |-> CodeType, execution_count |-> Null, metadata |-> Obj(<<>>),
         outputs |-> Arr(<<>>), source |-> Str(<<>>)])

\* stored cell -> NotebookCellData; a code cell gets the preferred language
createVSCNotebookCellData(preferredLanguage, cell) ==
    IF Get(cell, "cell_type") = CodeType
    THEN [kind |-> "Code", value |-> Get(cell, "source"),
          languageId |-> preferredLanguage, outputs |-> Get(cell, "outputs"),
          executionOrder |-> Get(cell, "execution_count"),
          custom |-> Get(cell, "metadata")]
    ELSE [kind |-> "Markup", value |-> Get(cell, "source"),
          languageId |-> Str(<<"markdown">>), outputs |-> Arr(<<>>),
          executionOrder |-> Undefined, custom |-> Get(cell, "metadata")]

\* NotebookCellData -> stored cell
createJupyterCellFromVSCNotebookCell(cell) ==
    IF cell.kind = "Code"
    THEN Obj([cell_type |-> CodeType, execution_count |-> cell.executionOrder,
              metadata |-> cell.custom, outputs |-> cell.outputs,
              source |-> cell.value])
    ELSE Obj([cell_type |-> MarkdownType, metadata |-> cell.custom,
              source |-> cell.value])

\* removes what is not persisted: a cell that is no code cell has neither
\* outputs nor an execution count
pruneCell(cell) ==
    IF Get(cell, "cell_type") = CodeType THEN cell
    ELSE Obj([k \in DOMAIN cell.v \ {"outputs", "execution_count"} |-> cell.v[k]])

\* cellLanguageService.getPreferredLanguage(metadata)
getPreferredLanguage(metadata) ==
    IF Truthy(Get(Get(metadata, "language_info"), "name"))
    THEN Get(Get(metadata, "language_info"), "name")
    ELSE Str(<<"python">>)

NotebookData(cells, metadata) == [cells |-> cells, metadata |-> metadata]

\* new NotebookDocumentMetadata(): none of the keys the serializer reads or writes
DefaultMetadata == <<>>

\* notebookModelToVSCNotebookData: the cells converted in order, the metadata
\* made of the other top-level fields of the document.  What it makes of cells
\* that are no sequence is not specified: it throws (see ConvertAndReturn) or
\* finds no cell in them
notebookModelToVSCNotebookData(notebookContentWithoutCells, nbCells, preferredLanguage, originalJson) ==
    NotebookData(
        IF nbCells.t = "arr"
        THEN [i \in 1..Len(nbCells.v) |->
                 createVSCNotebookCellData(preferredLanguage, nbCells.v[i])]
        ELSE <<>>,
        [k \in DOMAIN notebookContentWithoutCells \ {"cells"} |-> notebookContentWithoutCells[k]])

\* the live document the editor holds for a NotebookData
NotebookDocument(data) ==
    [viewType |-> "jupyter-notebook", cellList |-> data.cells, metadata |-> data.metadata]

getCells(document) == document.cellList

----------------------------------------------------------------------------
(* deserializeNotebook *)

NoCalls ==
    [parse |-> FALSE, telemetry |-> "not called", language |-> FALSE,
     converter |-> FALSE, cells |-> Undefined, uuid |-> FALSE]

NoData == NotebookData(<<>>, <<>>)

Threw(error, calls) ==
    [outcome |-> "threw", error |-> error, data |-> NoData, calls |-> calls]

Returned(data, calls) ==
    [outcome |-> "returned", error |-> "none", data |-> data, calls |-> calls]

\* parse, were the text parsed without looking whether it is empty
parse_always(content) == content.json

\* line 29: contents ? JSON.parse(contents) : undefined
\* (Malformed: JSON.parse throws a SyntaxError)
parse(content) == IF IsEmptyText(content) THEN Undefined ELSE content.json

\* HasNoCells, were the check left out
HasNoCells_never(json) == FALSE

\* line 32: json && !json.cells
HasNoCells(json) == Truthy(json) /\ ~Truthy(Get(json, "cells"))

\* EnsureBlankCell, were the empty sequence left as it is
EnsureBlankCell_never(json) == json

\* lines 46-56: if (json?.cells?.length === 0) json.cells = [the blank cell]
EnsureBlankCell(json) ==
    IF Length(Get(json, "cells")) = Num(0)
    THEN Obj([json.v EXCEPT !["cells"] = Arr(<<BlankCell>>)])
    ELSE json

\* WithIndentAndId, were the identifier left out
WithIndentAndId_noId(metadata, indentAmount, id) ==
    With(metadata, "indentAmount" :> Str(indentAmount))

\* line 63: data.metadata.with({ indentAmount, __vsc_id: uuid() })
WithIndentAndId(metadata, indentAmount, id) ==
    With(metadata, ("indentAmount" :> Str(indentAmount)) @@ ("__vsc_id" :> id))

\* lines 64-69: nbformat and nbformat_minor, each when truthy
WithNbformat(metadata, json) ==
    LET major == IF Truthy(Get(json, "nbformat"))
                 THEN With(metadata, "nbformat" :> Get(json, "nbformat"))
                 ELSE metadata
    IN  IF Truthy(Get(json, "nbformat_minor"))
        THEN With(major, "nbformat_minor" :> Get(json, "nbformat_minor"))
        ELSE major

\* lines 57-71: the converter is called, then the metadata is completed
ConvertAndReturn(json, indentAmount, preferredCellLanguage, converterThrows, id, calls) ==
    LET nbCells == IF Truthy(Get(json, "cells")) THEN Get(json, "cells") ELSE Arr(<<>>)
        called == [calls EXCEPT !.converter = TRUE, !.cells = nbCells]
    IN  IF nbCells.t # "arr" /\ converterThrows
        THEN Threw("ConverterError", called)
        ELSE
          LET data == notebookModelToVSCNotebookData(
                          ("cells" :> Arr(<<>>)) @@ Spread(json), nbCells,
                          preferredCellLanguage,
                          IF Truthy(json) THEN json ELSE Obj(<<>>))
          IN  Returned(
                  NotebookData(data.cells,
                      WithNbformat(WithIndentAndId(data.metadata, indentAmount, id), json)),
                  [called EXCEPT !.uuid = TRUE])

\* content: the text of the file; telemetryThrows, converterThrows: what the
\* collaborators do when called; id: what uuid() returns when called
deserializeNotebook(content, telemetryThrows, converterThrows, id) ==
    LET json == parse(content)
        calls == [NoCalls EXCEPT !.parse = ~IsEmptyText(content)]
    IN  IF json = Malformed
        THEN Threw("SyntaxError", calls)
        ELSE IF HasNoCells(json)
        THEN Returned(NotebookData(<<>>, DefaultMetadata), calls)
        ELSE
          LET indentAmount == IF IsEmptyText(content) THEN <<" ">>
                              ELSE detectIndent(content.lines)
          IN  IF Truthy(json) /\ telemetryThrows
              THEN Threw("TelemetryError", [calls EXCEPT !.telemetry = "threw"])
              ELSE
                LET sent == IF Truthy(json)
                            THEN [calls EXCEPT !.telemetry = "returned"] ELSE calls
                    preferredCellLanguage == getPreferredLanguage(Get(json, "metadata"))
                IN  ConvertAndReturn(EnsureBlankCell(json), indentAmount,
                                     preferredCellLanguage, converterThrows, id,
                                     [sent EXCEPT !.language = TRUE])

----------------------------------------------------------------------------
(* serialize *)

DefaultOrigNbformat == 4
DefaultNbformat == 4
DefaultNbformatMinor == 2

\* OutputNbformat, were nbformat_minor not written over nbformat
OutputNbformat_majorOnly(metadata) ==
    IF "nbformat" \in DOMAIN metadata THEN metadata["nbformat"]
    ELSE Num(DefaultNbformat)

\* lines 83-91: the nbformat written
OutputNbformat(metadata) ==
    IF "nbformat_minor" \in DOMAIN metadata THEN metadata["nbformat_minor"]
    ELSE IF "nbformat" \in DOMAIN metadata THEN metadata["nbformat"]
    ELSE Num(DefaultNbformat)

\* line 84: the nbformat_minor written, which nothing overwrites
OutputNbformatMinor(metadata) == Num(DefaultNbformatMinor)

\* OutputIndentAmount, were the metadata not looked at
OutputIndentAmount_default(metadata) == <<" ">>

\* lines 92-95
OutputIndentAmount(metadata) ==
    IF "indentAmount" \in DOMAIN metadata /\ metadata["indentAmount"].t = "str"
    THEN metadata["indentAmount"].v
    ELSE <<" ">>

\* OutputCells, were the cells of a live document not read
OutputCells_dataOnly(data) ==
    IF "viewType" \in DOMAIN data THEN <<>>
    ELSE [i \in 1..Len(data.cells) |->
             pruneCell(createJupyterCellFromVSCNotebookCell(data.cells[i]))]

\* lines 97-104: the cells of the live document or of the data, converted and pruned
OutputCells(data) ==
    LET cellList == IF "viewType" \in DOMAIN data THEN getCells(data) ELSE data.cells
    IN  [i \in 1..Len(cellList) |->
            pruneCell(createJupyterCellFromVSCNotebookCell(cellList[i]))]

\* data: a NotebookData or a NotebookDocument
serialize(data) ==
    LET json == Obj([cells |-> Arr(OutputCells(data)),
                     metadata |-> Obj([orig_nbformat |-> Num(DefaultOrigNbformat)]),
                     nbformat |-> OutputNbformat(data.metadata),
                     nbformat_minor |-> OutputNbformatMinor(data.metadata)])
        indentAmount == OutputIndentAmount(data.metadata)
    IN  [indentAmount |-> indentAmount, json |-> json,
         text |-> stringify(json, indentAmount)]

----------------------------------------------------------------------------
(* The inputs *)

MaxLines == 2
MaxCells == 2
MaxUuid == 2

RECURSIVE SeqsUpTo(_, _)
SeqsUpTo(S, n) ==
    IF n = 0 THEN {<<>>}
    ELSE LET shorter == SeqsUpTo(S, n - 1)
         IN  shorter \cup {Append(q, x) : q \in {r \in shorter : Len(r) = n - 1}, x \in S}

\* no indentation, four spaces, more spaces than JSON.stringify keeps, and a tab
LineIndents == {NoIndent, <<"s", 4>>, <<"s", MaxGap + 1>>, <<"t", 1>>}

Layouts == SeqsUpTo(LineIndents, MaxLines) \ {<<>>}

StoredCells ==
    { Obj([cell_type |-> CodeType, execution_count |-> Num(1), metadata |-> Obj(<<>>),
           outputs |-> Arr(<<>>), source |-> Str(<<"x">>)]),
      Obj([cell_type |-> MarkdownType, metadata |-> Obj(<<>>),
           source |-> Str(<<"#", " ", "H", "i">>)]) }

\* a cells field: absent (undefined), falsy values, truthy values that are no
\* sequence, and sequences of cells
CellsValues ==
    {Undefined, Null, Str(<<>>), Num(5), Obj(<<>>)}
        \cup {Arr(q) : q \in SeqsUpTo(StoredCells, MaxCells)}

NbformatValues == {Undefined, Num(4)}
NbformatMinorValues == {Undefined, Num(0), Num(2), Num(5)}
LanguageMetadata == Obj([language_info |-> Obj([name |-> Str(<<"julia">>)])])

\* an object with the fields that are not undefined
Fields(f) == Obj([k \in {k \in DOMAIN f : f[k] # Undefined} |-> f[k]])

Document(cells, metadata, nbformat, nbformat_minor) ==
    Fields([cells |-> cells, metadata |-> metadata, nbformat |-> nbformat,
            nbformat_minor |-> nbformat_minor])

\* the scenario of the specification: one markdown cell, nbformat 4.2
OneCell ==
    Arr(<<Obj([cell_type |-> MarkdownType, metadata |-> Obj(<<>>),
               source |-> Str(<<"#", " ", "H", "i">>)])>>)

\* every cells value, every pair of versions, and a document with metadata
Documents ==
    {Document(c, Undefined, Num(4), Num(2)) : c \in CellsValues}
        \cup {Document(OneCell, Undefined, n, i) :
                 n \in NbformatValues, i \in NbformatMinorValues}
        \cup {Document(c, LanguageMetadata, Undefined, Undefined) :
                 c \in {Arr(q) : q \in SeqsUpTo(StoredCells, 1)}}

NonObjects ==
    {Null, Num(0), Num(5), Bool(FALSE), Bool(TRUE), Str(<<>>), Str(<<"a">>), Arr(<<>>)}

PrettyLayout == <<NoIndent, <<"s", 2>>>>

\* the empty text, a document in every layout, and every JSON value (or none)
\* in one layout
Contents ==
    {EmptyText}
        \cup {[lines |-> l, json |-> Document(OneCell, Undefined, Num(4), Num(2))] :
                 l \in Layouts}
        \cup {[lines |-> PrettyLayout, json |-> j] :
                 j \in Documents \cup NonObjects \cup {Malformed}}

\* NotebookData the editor hands to serialize that deserializeNotebook did not make
HostData ==
    { NotebookData(<<createVSCNotebookCellData(Str(<<"python">>), OneCell.v[1])>>, m) :
        m \in { "indentAmount" :> Num(2),
                ("indentAmount" :> Str(<<"\t", "\t">>)) @@ ("nbformat" :> Num(3)) } }

----------------------------------------------------------------------------
(* The serializer in use *)

NoDecode == [outcome |-> "none", error |-> "none", data |-> NoData,
             calls |-> NoCalls, content |-> EmptyText]

NoEncode == [outcome |-> "none", data |-> NoData, roundTrip |-> FALSE,
             live |-> FALSE, indentAmount |-> <<>>, json |-> Undefined, text |-> EmptyText]

Init ==
    /\ decode = NoDecode
    /\ encode = NoEncode
    /\ uuidCalls = 0
    /\ returnedIds = <<>>

uuid == Uuid(uuidCalls + 1)

\* the editor opens a file: deserializeNotebook(content); the collaborator that
\* throws when called is the telemetry, the converter (given cells that are no
\* sequence), or none
DeserializeNotebook ==
    /\ uuidCalls < MaxUuid
    /\ \E content \in Contents, throws \in {"nothing", "telemetry", "converter"} :
         \E r \in {deserializeNotebook(content, throws = "telemetry",
                                         throws = "converter", uuid)} :
             /\ decode' = [outcome |-> r.outcome, error |-> r.error, data |-> r.data,
                           calls |-> r.calls, content |-> content]
             /\ uuidCalls' = IF r.calls.uuid THEN uuidCalls + 1 ELSE uuidCalls
             /\ returnedIds' =
                  IF r.outcome = "returned" /\ "__vsc_id" \in DOMAIN r.data.metadata
                  THEN Append(returnedIds, r.data.metadata["__vsc_id"])
                  ELSE returnedIds
    /\ encode' = NoEncode

\* what serialize is called with: the data last returned, or data of the editor's
SerializeInputs ==
    HostData \cup (IF decode.outcome = "returned" THEN {decode.data} ELSE {})

Encoded(data, live, r) ==
    [outcome |-> "returned", data |-> data, live |-> live,
     roundTrip |-> decode.outcome = "returned" /\ data = decode.data,
     indentAmount |-> r.indentAmount, json |-> r.json, text |-> r.text]

\* serializeNotebook(data): the data snapshot
SerializeNotebook ==
    /\ \E data \in SerializeInputs :
         \E r \in {serialize(data)} : encode' = Encoded(data, FALSE, r)
    /\ UNCHANGED <<decode, uuidCalls, returnedIds>>

\* serializeNotebookDocument(document): the live document
SerializeNotebookDocument ==
    /\ \E data \in SerializeInputs :
         \E r \in {serialize(NotebookDocument(data))} : encode' = Encoded(data, TRUE, r)
    /\ UNCHANGED <<decode, uuidCalls, returnedIds>>

Next ==
    \/ DeserializeNotebook
    \/ SerializeNotebook
    \/ SerializeNotebookDocument

Spec == Init /\ [][Next]_vars

----------------------------------------------------------------------------
(* What the claims speak of *)

Deserialized == decode.outcome = "returned"
Serialized == encode.outcome = "returned"

\* the text decoded and the value it denotes
text == decode.content
stored == decode.content.json
Parseable == ~IsEmptyText(text) /\ stored # Malformed

\* the stored notebook is an object whose cells are a sequence
HasCellSequence == Parseable /\ Get(stored, "cells").t = "arr"
CellCount == Len(Get(stored, "cells").v)

\* serialize ran on the unmodified data the last deserializeNotebook returned
RoundTrip == Deserialized /\ Serialized /\ encode.roundTrip

\* the document read back from the text serialize returned
written == encode.text.json

----------------------------------------------------------------------------
(* C1: a stored notebook with at least one cell and with nbformat and
   nbformat_minor present comes back from deserializeNotebook followed by
   serializeNotebook with the same nbformat and the same nbformat_minor. *)
C1_VersionRoundTrip ==
    (RoundTrip /\ HasCellSequence /\ CellCount >= 1
        /\ Get(stored, "nbformat") # Undefined
        /\ Get(stored, "nbformat_minor") # Undefined)
    => /\ Get(written, "nbformat") = Get(stored, "nbformat")
       /\ Get(written, "nbformat_minor") = Get(stored, "nbformat_minor")

(* C2: deserializeNotebook followed by serialize, of the data or of the live
   document, writes the cells of the stored notebook: as many, the same, in
   the same order. *)
C2_CellsRoundTrip ==
    (RoundTrip /\ HasCellSequence /\ CellCount >= 1)
    => /\ Get(written, "cells") = Get(stored, "cells")
       /\ Len(decode.data.cells) = CellCount

C2_Witness ==
    /\ RoundTrip /\ HasCellSequence /\ CellCount = 2
    /\ encode.live
    /\ Get(stored, "cells").v[1] # Get(stored, "cells").v[2]
    /\ Get(written, "cells") = Get(stored, "cells")

(* C3: when the cells of the parsed document are a sequence of length zero,
   the per-cell converter is passed exactly one cell, a code cell with a null
   execution count, empty metadata, no outputs and an empty source, and the
   data returned has exactly one cell. *)
C3_BlankCell ==
    (HasCellSequence /\ CellCount = 0 /\ decode.calls.converter)
    => /\ decode.calls.cells.t = "arr"
       /\ Len(decode.calls.cells.v) = 1
       /\ decode.calls.cells.v[1].v =
            [cell_type |-> Str(<<"code">>), execution_count |-> Null,
             metadata |-> Obj(<<>>), outputs |-> Arr(<<>>), source |-> Str(<<>>)]
       /\ Deserialized
       /\ Len(decode.data.cells) = 1

C3_Witness ==
    /\ HasCellSequence /\ CellCount = 0
    /\ Deserialized /\ Len(decode.data.cells) = 1
    /\ decode.data.cells[1].kind = "Code"

(* C4: a JSON object without a cells field gives data with no cells and the
   default metadata, and neither the telemetry, nor the language service,
   nor the converter is called; an empty cells sequence gives one cell. *)
C4_NoCellsField ==
    /\ (Parseable /\ stored.t = "obj" /\ "cells" \notin DOMAIN stored.v)
       => /\ Deserialized
          /\ decode.data = NotebookData(<<>>, DefaultMetadata)
          /\ decode.calls.telemetry = "not called"
          /\ ~decode.calls.language
          /\ ~decode.calls.converter
    /\ (Deserialized /\ HasCellSequence /\ CellCount = 0)
       => decode.data # NotebookData(<<>>, DefaultMetadata)

C4_Witness ==
    /\ Parseable /\ stored.t = "obj" /\ "cells" \notin DOMAIN stored.v
    /\ Deserialized /\ decode.data.cells = <<>> /\ decode.data.metadata = <<>>

NoDuplicates(q) == \A i, j \in 1..Len(q) : q[i] = q[j] => i = j

(* C5, as claimed: every NotebookData deserializeNotebook returns carries a
   __vsc_id generated during the call, and no two returned carry the same. *)
C5_EveryReturnHasId ==
    Deserialized
    => /\ "__vsc_id" \in DOMAIN decode.data.metadata
       /\ NoDuplicates(returnedIds)

(* C5, amended: every NotebookData deserializeNotebook returns past the check
   for a document without cells (empty text, an empty or a non-empty cells
   sequence) carries the __vsc_id generated during the call, and no two
   returned carry the same; the data returned for a document without cells
   carries none. *)
C5_ReturnPastCheckHasId ==
    /\ (Deserialized /\ ~HasNoCells(parse(text)))
       => /\ "__vsc_id" \in DOMAIN decode.data.metadata
          /\ decode.data.metadata["__vsc_id"] = Uuid(uuidCalls)
          /\ returnedIds[Len(returnedIds)] = Uuid(uuidCalls)
    /\ (Deserialized /\ HasNoCells(parse(text)))
       => "__vsc_id" \notin DOMAIN decode.data.metadata
    /\ NoDuplicates(returnedIds)

C5_Witness ==
    /\ Deserialized /\ ~HasNoCells(parse(text))
    /\ Len(returnedIds) = 2
    /\ returnedIds[1] # returnedIds[2]

\* the indentation unit of the text: detected, or one space for the empty text
Detected == IF IsEmptyText(text) THEN <<" ">> ELSE detectIndent(text.lines)

(* C6: the indentation unit detected from the text is stored in the metadata
   and is the indent string serialize uses on the unmodified data, so that a
   text indented with 4 spaces is written with 4 spaces; without a string
   indentAmount in the metadata, or with the empty text, the indent is one
   space. *)
C6_IndentRoundTrip ==
    /\ (Deserialized /\ decode.calls.uuid)
       => decode.data.metadata["indentAmount"] = Str(Detected)
    /\ (RoundTrip /\ decode.calls.uuid)
       => /\ encode.indentAmount = Detected
          /\ (Detected # <<>> /\ Len(Detected) <= MaxGap)
             => detectIndent(encode.text.lines) = Detected
    /\ (RoundTrip /\ IsEmptyText(text)) => encode.indentAmount = <<" ">>
    /\ (Serialized /\ ("indentAmount" \notin DOMAIN encode.data.metadata
                     \/ encode.data.metadata["indentAmount"].t # "str"))
       => encode.indentAmount = <<" ">>

C6_Witness ==
    /\ RoundTrip
    /\ Detected = <<" ", " ", " ", " ">>
    /\ encode.indentAmount = <<" ", " ", " ", " ">>
    /\ encode.text.lines[2] = <<"s", 4>>

(* C7: when the metadata serialize is given has the key nbformat_minor, its
   value is written as nbformat, whatever nbformat the metadata has, and the
   nbformat_minor written is 2. *)
C7_MinorWrittenAsNbformat ==
    (Serialized /\ "nbformat_minor" \in DOMAIN encode.data.metadata)
    => /\ Get(written, "nbformat") = encode.data.metadata["nbformat_minor"]
       /\ Get(written, "nbformat_minor") = Num(2)

C7_Witness ==
    /\ Serialized
    /\ "nbformat" \notin DOMAIN encode.data.metadata
    /\ "nbformat_minor" \in DOMAIN encode.data.metadata
    /\ encode.data.metadata["nbformat_minor"] = Num(5)
    /\ Get(written, "nbformat") = Num(5)

(* C8: deserializeNotebook throws a parse error exactly when the text is not
   empty and is no JSON; on the empty text nothing is parsed, nothing is
   thrown, the telemetry is not called and the data returned records an
   indent of one space. *)
C8_ParseError ==
    decode.outcome # "none"
    => /\ (decode.outcome = "threw" /\ decode.error = "SyntaxError")
            <=> (~IsEmptyText(text) /\ stored = Malformed)
       /\ IsEmptyText(text)
            => /\ ~decode.calls.parse
               /\ Deserialized
               /\ decode.calls.telemetry = "not called"
               /\ decode.data.metadata["indentAmount"] = Str(<<" ">>)

C8_Witness ==
    /\ decode.outcome = "returned"
    /\ IsEmptyText(text)
    /\ decode.data.metadata["indentAmount"] = Str(<<" ">>)

(* C9: when sendLanguageTelemetry throws, deserializeNotebook still returns
   the data, and the error does not reach the caller. *)
C9_TelemetryFailureIsolated ==
    decode.calls.telemetry = "threw" => Deserialized

(* C10: a text that parses to something that is no object, or to an object
   whose cells are present and no sequence, gives the data of a document
   without cells: no cells, the default metadata, no error, and the cells
   are not passed to the converter. *)
C10_NonObjectShortCircuit ==
    (decode.outcome # "none" /\ Parseable
        /\ (stored.t # "obj"
            \/ ("cells" \in DOMAIN stored.v /\ stored.v["cells"].t # "arr")))
    => /\ Deserialized
       /\ decode.data = NotebookData(<<>>, DefaultMetadata)
       /\ ~decode.calls.converter

====
